---- MODULE Spec2Model ----
\* Model of the POST handler of src/app/api/check-pricing-v2/route.ts:
\* one request travels through validation, property lookup, availability
\* check, concurrent calendar fetches (Promise.all), the per-night pricing
\* loop, the minimum-stay check and the booking aggregator.
\*
\* Dates.  The model calendar has DaysPerMonth days in every month.  A Date
\* object is its epoch day t (0..MaxDay); the request carries date-only ISO
\* strings, written "<yearMonth>-<dayOfMonth>" (Format).  All requests are
\* date-only strings, so every parsed Date is a local midnight.
\* Optional values (a field that may be undefined) are sequences of length
\* at most one: <<>> is undefined, <<v>> is the value v.
EXTENDS Integers, Sequences, FiniteSets, TLC

VARIABLES body, today, pc, property, nights, availabilityResult, months,
          pending, calendars, dailyPrices, minimumStay, night, currentDate,
          aggregatorArg, calls, response

vars == <<body, today, pc, property, nights, availabilityResult, months,
          pending, calendars, dailyPrices, minimumStay, night, currentDate,
          aggregatorArg, calls, response>>

\* ---------------------------------------------------------------- bounds
MaxDay == 4          \* last epoch day a request may name
DaysPerMonth == 2    \* length of a month of the model calendar
MaxGuests == 3       \* largest guest count of a request
Today == 1           \* epoch day of "today" (day 0 is in the past)

\* ------------------------------------------------------- dates (date-fns)
Days == 0..MaxDay

getYearMonth(t) == t \div DaysPerMonth           \* getFullYear(), getMonth()+1
getDate(t) == (t % DaysPerMonth) + 1             \* getDate()

\* format(date, 'yyyy-MM-dd')
format(t) == ToString(getYearMonth(t)) \o "-" \o ToString(getDate(t))

IsoDates == {format(t) : t \in Days}

\* parseISO(str), for the date-only strings of IsoDates
parseISO(s) == CHOOSE t \in Days : format(t) = s

\* variant: counts the check-out day as a night
differenceInDaysInclusive(later, earlier) == later - earlier + 1

\* differenceInDays(later, earlier), both local midnights
differenceInDays(later, earlier) == later - earlier

\* getMonthsBetweenDates(checkInDate, checkOutDate): the (year, month) pairs
\* spanned by [checkInDate, checkOutDate)
getMonthsBetweenDates(ci, co) == {getYearMonth(t) : t \in ci..(co - 1)}

\* ------------------------------------------------------------ collaborators
NoPrices == [k \in {} |-> 0]

\* DayPrice records a calendar may hold
DayPrices ==
  { [basePrice |-> 100, prices |-> NoPrices,       minimumStay |-> <<>>],
    [basePrice |-> 100, prices |-> [k \in {"3"} |-> 150], minimumStay |-> <<1>>],
    [basePrice |-> 100, prices |-> [k \in {"3"} |-> 0],   minimumStay |-> <<>>],
    [basePrice |-> 120, prices |-> [k \in {"03"} |-> 90], minimumStay |-> <<3>>] }

DayKeys == {ToString(d) : d \in 1..DaysPerMonth}

\* the days mapping of one month: day-of-month string -> DayPrice, some days
\* possibly missing
DaysMappings ==
  UNION { [ks -> DayPrices] : ks \in SUBSET DayKeys }

\* PropertyProfile values getPropertyWithDb may return
Properties ==
  { [baseOccupancy |-> 2, extraGuestFee |-> <<>>,   defaultMinimumStay |-> <<>>,
     cleaningFee |-> <<>>,   baseCurrency |-> "EUR"],
    [baseOccupancy |-> 2, extraGuestFee |-> <<10>>, defaultMinimumStay |-> <<2>>,
     cleaningFee |-> <<20>>, baseCurrency |-> "EUR"] }

Sources == {"availability", "legacy"}

NoProperty == [baseOccupancy |-> 0, extraGuestFee |-> <<>>,
               defaultMinimumStay |-> <<>>, cleaningFee |-> <<>>,
               baseCurrency |-> ""]

\* ---------------------------------------------------------------- responses
NoResponse ==
  [status |-> 0, error |-> "", available |-> <<>>, reason |-> "",
   unavailableDates |-> <<>>, minimumStay |-> <<>>, requiredNights |-> <<>>,
   source |-> "", dailyRates |-> NoPrices, pricing |-> <<>>, currency |-> ""]

ErrorResponse(msg, code) == [NoResponse EXCEPT !.status = code, !.error = msg]

MissingParameter == ErrorResponse("Missing required parameters", 400)
PastCheckIn == ErrorResponse("Check-in date cannot be in the past", 400)
InvalidDateRange == ErrorResponse("Check-out date must be after check-in date", 400)
PriceDataUnavailable ==
  ErrorResponse("Price information not available for the selected dates", 404)
DayPriceUnavailable(dateStr) ==
  ErrorResponse("Price information not available for " \o dateStr, 404)
InternalFailure == ErrorResponse("Failed to check pricing", 500)

\* ---------------------------------------------------------------- validation
\* !propertyId || !checkIn || !checkOut || !guests
HasMissingParameter(b) ==
  b.propertyId = "" \/ b.checkIn = "" \/ b.checkOut = "" \/ b.guests = 0

\* variant: an empty range (checkIn = checkOut) passes the range check
ValidateStrictRange(b, now) ==
  IF HasMissingParameter(b) THEN "MissingParameter"
  ELSE IF parseISO(b.checkIn) < now THEN "PastCheckIn"
  ELSE IF parseISO(b.checkIn) > parseISO(b.checkOut) THEN "InvalidDateRange"
  ELSE "ok"

\* variant: the range check runs before the past-date check
ValidateRangeFirst(b, now) ==
  IF HasMissingParameter(b) THEN "MissingParameter"
  ELSE IF parseISO(b.checkIn) >= parseISO(b.checkOut) THEN "InvalidDateRange"
  ELSE IF parseISO(b.checkIn) < now THEN "PastCheckIn"
  ELSE "ok"

\* lines 21-49: the validation outcome, "ok" when the request passes
Validate(b, now) ==
  IF HasMissingParameter(b) THEN "MissingParameter"
  ELSE IF parseISO(b.checkIn) < now THEN "PastCheckIn"
  ELSE IF parseISO(b.checkIn) >= parseISO(b.checkOut) THEN "InvalidDateRange"
  ELSE "ok"

\* ------------------------------------------------------ nightly price resolver
\* value || 0 on an optional amount
OrZero(opt) == IF opt = <<>> THEN 0 ELSE opt[1]

\* dayPrice.prices?.[guests.toString()]
occupancyPrice(dayPrice, guests) ==
  IF ToString(guests) \in DOMAIN dayPrice.prices
  THEN <<dayPrice.prices[ToString(guests)]>>
  ELSE <<>>

\* JavaScript truthiness of an optional number: undefined and 0 are falsy
Truthy(opt) == opt # <<>> /\ opt[1] # 0

\* variant: the fallback charges the fee for every guest, not the extra ones
resolveNightPriceAllGuests(guests, prop, dayPrice) ==
  IF guests <= prop.baseOccupancy
  THEN dayPrice.basePrice
  ELSE IF Truthy(occupancyPrice(dayPrice, guests))
       THEN occupancyPrice(dayPrice, guests)[1]
       ELSE dayPrice.basePrice + guests * OrZero(prop.extraGuestFee)

\* lines 136-155: the price stored in dailyPrices[dateStr]
resolveNightPrice(guests, prop, dayPrice) ==
  IF guests <= prop.baseOccupancy
  THEN dayPrice.basePrice
  ELSE IF Truthy(occupancyPrice(dayPrice, guests))
       THEN occupancyPrice(dayPrice, guests)[1]
       ELSE dayPrice.basePrice
            + (guests - prop.baseOccupancy) * OrZero(prop.extraGuestFee)

\* line 109: property.defaultMinimumStay ?? 1
seedMinimumStay(prop) ==
  IF prop.defaultMinimumStay = <<>> THEN 1 ELSE prop.defaultMinimumStay[1]

\* variant: the last night that defines a minimumStay decides
raiseMinimumStayLast(current, dayPrice) ==
  IF Truthy(dayPrice.minimumStay) THEN dayPrice.minimumStay[1] ELSE current

\* lines 158-160: keep the highest minimumStay found
raiseMinimumStay(current, dayPrice) ==
  IF Truthy(dayPrice.minimumStay) /\ dayPrice.minimumStay[1] > current
  THEN dayPrice.minimumStay[1]
  ELSE current

\* line 122 and 124: the calendar of the night's month, and its day entry
findCalendar(cals, t) ==
  IF getYearMonth(t) \in DOMAIN cals /\ cals[getYearMonth(t)].status = "present"
  THEN <<cals[getYearMonth(t)]>>
  ELSE <<>>

hasDayPrice(cals, t) ==
  /\ findCalendar(cals, t) # <<>>
  /\ ToString(getDate(t)) \in DOMAIN findCalendar(cals, t)[1].days

dayPriceOf(cals, t) == findCalendar(cals, t)[1].days[ToString(getDate(t))]

\* line 100: calendars.some(calendar => calendar === null)
someCalendarMissing(cals) == \E m \in DOMAIN cals : cals[m].status = "null"

\* variant: the join does not wait for the outstanding fetches
allSettledNoWait(outstanding) == TRUE

\* Promise.all resolves once no fetch is outstanding
allSettled(outstanding) == outstanding = {}

\* variant: off by one, a stay one night short is accepted
meetsMinimumStayOffByOne(n, minStay) == n + 1 >= minStay

\* line 168
meetsMinimumStay(n, minStay) == n >= minStay

\* ------------------------------------------------------------- aggregator
RECURSIVE SumPrices(_)
SumPrices(prices) ==
  IF DOMAIN prices = {} THEN 0
  ELSE LET k == CHOOSE x \in DOMAIN prices : TRUE
       IN prices[k] + SumPrices([x \in DOMAIN prices \ {k} |-> prices[x]])

\* calculateBookingPrice(dailyPrices, cleaningFee, no discounts)
calculateBookingPrice(prices, cleaningFee) ==
  [accommodationTotal |-> SumPrices(prices),
   numberOfNights |-> Cardinality(DOMAIN prices),
   subtotal |-> SumPrices(prices) + cleaningFee,
   total |-> SumPrices(prices) + cleaningFee]

\* ------------------------------------------------------------------- state
NoCalls == [property |-> 0, availability |-> 0, calendar |-> 0,
            resolve |-> 0, aggregator |-> 0]

Bodies ==
  [propertyId : {"", "prop1"}, checkIn : IsoDates \cup {""},
   checkOut : IsoDates \cup {""}, guests : 0..MaxGuests]

Init ==
  /\ body \in Bodies
  /\ today = Today
  /\ pc = "validate"
  /\ property = NoProperty
  /\ nights = 0
  /\ availabilityResult = <<>>
  /\ months = {}
  /\ pending = {}
  /\ calendars = [m \in {} |-> 0]
  /\ dailyPrices = NoPrices
  /\ minimumStay = 0
  /\ night = 0
  /\ currentDate = 0
  /\ aggregatorArg = <<>>
  /\ calls = NoCalls
  /\ response = NoResponse

checkInDate == parseISO(body.checkIn)
checkOutDate == parseISO(body.checkOut)

Respond(r) == response' = r /\ pc' = "done"

\* lines 16-49: parse the body and validate it
ValidateRequest ==
  /\ pc = "validate"
  /\ CASE Validate(body, today) = "MissingParameter" -> Respond(MissingParameter)
       [] Validate(body, today) = "PastCheckIn" -> Respond(PastCheckIn)
       [] Validate(body, today) = "InvalidDateRange" -> Respond(InvalidDateRange)
       [] OTHER -> pc' = "property" /\ UNCHANGED response
  /\ UNCHANGED <<body, today, property, nights, availabilityResult, months,
                 pending, calendars, dailyPrices, minimumStay, night,
                 currentDate, aggregatorArg, calls>>

\* lines 52-65: getPropertyWithDb returns a profile; nights is computed
GetProperty ==
  /\ pc = "property"
  /\ \E p \in Properties : property' = p
  /\ nights' = differenceInDays(checkOutDate, checkInDate)
  /\ calls' = [calls EXCEPT !.property = @ + 1]
  /\ pc' = "availability"
  /\ UNCHANGED <<body, today, availabilityResult, months, pending, calendars,
                 dailyPrices, minimumStay, night, currentDate, aggregatorArg,
                 response>>

\* line 52 throwing (property not found, database failure): lines 213-221
GetPropertyThrows ==
  /\ pc = "property"
  /\ calls' = [calls EXCEPT !.property = @ + 1]
  /\ Respond(InternalFailure)
  /\ UNCHANGED <<body, today, property, nights, availabilityResult, months,
                 pending, calendars, dailyPrices, minimumStay, night,
                 currentDate, aggregatorArg>>

\* results checkAvailabilityWithFlags may return for the range
AvailabilityResults ==
  [isAvailable : {TRUE}, unavailableDates : {<<>>}, source : Sources]
  \cup [isAvailable : {FALSE},
        unavailableDates : {<<format(t)>> : t \in checkInDate..(checkOutDate - 1)},
        source : Sources]

\* variant: the unavailable dates are not copied into the response
UnavailableDatesDropped(result) ==
  [NoResponse EXCEPT !.status = 200, !.available = <<FALSE>>,
                     !.reason = "unavailable_dates",
                     !.source = result.source]

\* lines 78-86
UnavailableDates(result) ==
  [NoResponse EXCEPT !.status = 200, !.available = <<FALSE>>,
                     !.reason = "unavailable_dates",
                     !.unavailableDates = result.unavailableDates,
                     !.source = result.source]

\* lines 69-97: the availability check; when positive, every month's calendar
\* fetch is issued (months.map starts all of them before the first await)
CheckAvailability ==
  /\ pc = "availability"
  /\ \E result \in AvailabilityResults :
       /\ availabilityResult' = <<result>>
       /\ IF ~result.isAvailable
          THEN /\ Respond(UnavailableDates(result))
               /\ calls' = [calls EXCEPT !.availability = @ + 1]
               /\ UNCHANGED <<months, pending, calendars>>
          ELSE /\ months' = getMonthsBetweenDates(checkInDate, checkOutDate)
               /\ pending' = months'
               /\ calendars' = [m \in months' |-> [status |-> "pending", days |-> NoPrices]]
               /\ calls' = [calls EXCEPT !.availability = @ + 1,
                                         !.calendar = @ + Cardinality(months')]
               /\ pc' = "fetch"
               /\ UNCHANGED response
  /\ UNCHANGED <<body, today, property, nights, dailyPrices, minimumStay,
                 night, currentDate, aggregatorArg>>

\* line 69 throwing
CheckAvailabilityThrows ==
  /\ pc = "availability"
  /\ calls' = [calls EXCEPT !.availability = @ + 1]
  /\ Respond(InternalFailure)
  /\ UNCHANGED <<body, today, property, nights, availabilityResult, months,
                 pending, calendars, dailyPrices, minimumStay, night,
                 currentDate, aggregatorArg>>

\* lines 93-96: one outstanding getPriceCalendarWithDb returns a calendar
FetchReturnsCalendar(m) ==
  /\ pc = "fetch"
  /\ m \in pending
  /\ \E days \in DaysMappings :
       calendars' = [calendars EXCEPT ![m] = [status |-> "present", days |-> days]]
  /\ pending' = pending \ {m}
  /\ UNCHANGED <<body, today, pc, property, nights, availabilityResult, months,
                 dailyPrices, minimumStay, night, currentDate, aggregatorArg,
                 calls, response>>

\* lines 93-96: one outstanding getPriceCalendarWithDb returns null
FetchReturnsNull(m) ==
  /\ pc = "fetch"
  /\ m \in pending
  /\ calendars' = [calendars EXCEPT ![m] = [status |-> "null", days |-> NoPrices]]
  /\ pending' = pending \ {m}
  /\ UNCHANGED <<body, today, pc, property, nights, availabilityResult, months,
                 dailyPrices, minimumStay, night, currentDate, aggregatorArg,
                 calls, response>>

\* lines 92-97: one outstanding fetch rejects; Promise.all rejects at once,
\* whatever the other fetches did or will do, and the catch block answers
FetchThrows(m) ==
  /\ pc = "fetch"
  /\ m \in pending
  /\ calendars' = [calendars EXCEPT ![m] = [status |-> "rejected", days |-> NoPrices]]
  /\ pending' = pending \ {m}
  /\ Respond(InternalFailure)
  /\ UNCHANGED <<body, today, property, nights, availabilityResult, months,
                 dailyPrices, minimumStay, night, currentDate, aggregatorArg,
                 calls>>

\* lines 92-113: Promise.all resolves; a null calendar ends the request,
\* otherwise the loop variables are set up
Join ==
  /\ pc = "fetch"
  /\ allSettled(pending)
  /\ IF someCalendarMissing(calendars)
     THEN /\ Respond(PriceDataUnavailable)
          /\ UNCHANGED <<dailyPrices, minimumStay, night, currentDate>>
     ELSE /\ dailyPrices' = NoPrices
          /\ minimumStay' = seedMinimumStay(property)
          /\ night' = 0
          /\ currentDate' = checkInDate
          /\ pc' = "loop"
          /\ UNCHANGED response
  /\ UNCHANGED <<body, today, property, nights, availabilityResult, months,
                 pending, calendars, aggregatorArg, calls>>

\* lines 115-164: one iteration of the per-night loop
ResolveNight ==
  /\ pc = "loop"
  /\ night < nights
  /\ IF ~hasDayPrice(calendars, currentDate)
     THEN /\ Respond(DayPriceUnavailable(format(currentDate)))
          /\ UNCHANGED <<dailyPrices, minimumStay, night, currentDate, calls>>
     ELSE /\ dailyPrices' =
               [k \in DOMAIN dailyPrices \cup {format(currentDate)} |->
                  IF k = format(currentDate)
                  THEN resolveNightPrice(body.guests, property,
                                         dayPriceOf(calendars, currentDate))
                  ELSE dailyPrices[k]]
          /\ minimumStay' = raiseMinimumStay(minimumStay,
                                             dayPriceOf(calendars, currentDate))
          /\ currentDate' = currentDate + 1
          /\ night' = night + 1
          /\ calls' = [calls EXCEPT !.resolve = @ + 1]
          /\ UNCHANGED <<pc, response>>
  /\ UNCHANGED <<body, today, property, nights, availabilityResult, months,
                 pending, calendars, aggregatorArg>>

\* variant: the response loses the availability source
MinimumStayOutcomeNoSource(minStay, source) ==
  [NoResponse EXCEPT !.status = 200, !.available = <<FALSE>>,
                     !.reason = "minimum_stay",
                     !.minimumStay = <<minStay>>,
                     !.requiredNights = <<minStay>>]

\* lines 171-179
MinimumStayOutcome(minStay, source) ==
  [NoResponse EXCEPT !.status = 200, !.available = <<FALSE>>,
                     !.reason = "minimum_stay",
                     !.minimumStay = <<minStay>>,
                     !.requiredNights = <<minStay>>,
                     !.source = source]

\* lines 190-200
PositiveOutcome(pricingDetails, rates, currency, source) ==
  [NoResponse EXCEPT !.status = 200, !.available = <<TRUE>>,
                     !.pricing = <<pricingDetails>>,
                     !.dailyRates = rates,
                     !.currency = currency,
                     !.source = source]

\* lines 166-211: the loop has ended; the stay policy, then the aggregator
\* (a pure synchronous call) and the final response
StayPolicyAndAggregate ==
  /\ pc = "loop"
  /\ ~(night < nights)
  /\ IF ~meetsMinimumStay(nights, minimumStay)
     THEN /\ Respond(MinimumStayOutcome(minimumStay, availabilityResult[1].source))
          /\ UNCHANGED <<aggregatorArg, calls>>
     ELSE /\ aggregatorArg' = <<dailyPrices>>
          /\ calls' = [calls EXCEPT !.aggregator = @ + 1]
          /\ Respond(PositiveOutcome(
                 calculateBookingPrice(dailyPrices, OrZero(property.cleaningFee)),
                 dailyPrices, property.baseCurrency, availabilityResult[1].source))
  /\ UNCHANGED <<body, today, property, nights, availabilityResult, months,
                 pending, calendars, dailyPrices, minimumStay, night,
                 currentDate>>

Next ==
  \/ ValidateRequest
  \/ GetProperty
  \/ GetPropertyThrows
  \/ CheckAvailability
  \/ CheckAvailabilityThrows
  \/ \E m \in months : FetchReturnsCalendar(m)
  \/ \E m \in months : FetchReturnsNull(m)
  \/ \E m \in months : FetchThrows(m)
  \/ Join
  \/ ResolveNight
  \/ StayPolicyAndAggregate

Spec == Init /\ [][Next]_vars

\* ------------------------------------------------------------ properties
\* The request passed validation (nights is set by line 65, always positive)
Validated == nights > 0

\* the nights [checkIn, checkOut) of a validated request
RangeNights == IF Validated THEN checkInDate..(checkOutDate - 1) ELSE {}

\* the nights whose price has been stored in dailyPrices
ResolvedNights == {t \in RangeNights : format(t) \in DOMAIN dailyPrices}

\* the per-night loop ran over every night of the range
LoopCompleted == Validated /\ pc \in {"loop", "done"} /\ night = nights

Done == pc = "done"

MaxOf(S) == CHOOSE x \in S : \A y \in S : y <= x

\* the fee of the linear formula: 0 when the property does not define it
FeeOrZero ==
  IF property.extraGuestFee = <<>> THEN 0 ELSE property.extraGuestFee[1]

\* max of the property default (1 when absent) and every per-night value
ExpectedMinimumStay ==
  MaxOf({IF property.defaultMinimumStay = <<>> THEN 1
         ELSE property.defaultMinimumStay[1]}
        \cup {dayPriceOf(calendars, t).minimumStay[1] :
                t \in {u \in RangeNights :
                         /\ hasDayPrice(calendars, u)
                         /\ dayPriceOf(calendars, u).minimumStay # <<>>}})

\* C1 as stated, read for requests that carry all four fields: every
\* finished request with checkIn >= checkOut got the InvalidDateRange
\* failure, whether or not checkIn is before today.
C1_Original ==
  (Done /\ ~HasMissingParameter(body)
        /\ parseISO(body.checkIn) >= parseISO(body.checkOut))
    => response = InvalidDateRange

\* C1 amended: a finished request with all four fields present, checkIn not
\* before today and checkIn >= checkOut got the InvalidDateRange failure
\* (status 400), and no collaborator was called.
C1_InvalidDateRange ==
  (Done /\ ~HasMissingParameter(body)
        /\ parseISO(body.checkIn) >= today
        /\ parseISO(body.checkIn) >= parseISO(body.checkOut))
    => /\ response.status = 400
       /\ response.error = "Check-out date must be after check-in date"
       /\ calls = NoCalls

C1_Witness ==
  /\ Done /\ ~HasMissingParameter(body)
  /\ parseISO(body.checkIn) >= today
  /\ parseISO(body.checkIn) = parseISO(body.checkOut)
  /\ response = InvalidDateRange

\* C2 as stated: every finished request whose checkIn is before today got the
\* PastCheckIn failure, whatever the other fields are, with no collaborator
\* called.
C2_Original ==
  (Done /\ body.checkIn # "" /\ parseISO(body.checkIn) < today)
    => (response = PastCheckIn /\ calls = NoCalls)

\* C2 amended: a finished request with all four fields present whose checkIn
\* is before today got the PastCheckIn failure (status 400), whatever the
\* check-out date is, and no collaborator was called.
C2_PastCheckIn ==
  (Done /\ ~HasMissingParameter(body) /\ parseISO(body.checkIn) < today)
    => /\ response.status = 400
       /\ response.error = "Check-in date cannot be in the past"
       /\ calls = NoCalls

C2_Witness ==
  /\ Done /\ ~HasMissingParameter(body)
  /\ parseISO(body.checkIn) < today
  /\ parseISO(body.checkIn) >= parseISO(body.checkOut)
  /\ response = PastCheckIn

\* C3: once checkAvailabilityWithFlags has returned isAvailable = false, the
\* request is finished with the unavailable_dates outcome carrying the
\* collaborator's unavailableDates and source, and no calendar was fetched,
\* no night resolved and the aggregator not called; never a positive outcome.
C3_ShortCircuit ==
  (availabilityResult # <<>> /\ ~availabilityResult[1].isAvailable)
    => /\ Done
       /\ calls.calendar = 0 /\ calls.resolve = 0 /\ calls.aggregator = 0
       /\ months = {} /\ DOMAIN dailyPrices = {}
       /\ response.status = 200
       /\ response.available = <<FALSE>>
       /\ response.reason = "unavailable_dates"
       /\ response.unavailableDates = availabilityResult[1].unavailableDates
       /\ response.source = availabilityResult[1].source

C3_Witness ==
  /\ Done
  /\ availabilityResult # <<>> /\ ~availabilityResult[1].isAvailable
  /\ availabilityResult[1].unavailableDates # <<>>
  /\ response.reason = "unavailable_dates"

\* C4 as stated: on every resolved night with guests > baseOccupancy whose
\* prices mapping has an entry for the guest count's string form, the stored
\* price is that entry's value, the value 0 included.
C4_OverrideWins ==
  \A t \in ResolvedNights :
    (/\ body.guests > property.baseOccupancy
     /\ ToString(body.guests) \in DOMAIN dayPriceOf(calendars, t).prices)
      => dailyPrices[format(t)]
           = dayPriceOf(calendars, t).prices[ToString(body.guests)]

\* C5: on every resolved night with guests > baseOccupancy and no entry for
\* the guest count, the stored price is basePrice + (guests - baseOccupancy)
\* * extraGuestFee (fee 0 when undefined); with guests <= baseOccupancy it is
\* basePrice.
C5_FallbackAndBase ==
  \A t \in ResolvedNights :
    /\ (/\ body.guests > property.baseOccupancy
        /\ ToString(body.guests) \notin DOMAIN dayPriceOf(calendars, t).prices)
         => dailyPrices[format(t)]
              = dayPriceOf(calendars, t).basePrice
                + (body.guests - property.baseOccupancy) * FeeOrZero
    /\ (body.guests <= property.baseOccupancy)
         => dailyPrices[format(t)] = dayPriceOf(calendars, t).basePrice

C5_Witness ==
  \E t \in ResolvedNights :
    /\ body.guests > property.baseOccupancy
    /\ ToString(body.guests) \notin DOMAIN dayPriceOf(calendars, t).prices
    /\ DOMAIN dayPriceOf(calendars, t).prices # {}
    /\ property.extraGuestFee # <<>>
    /\ dailyPrices[format(t)] > dayPriceOf(calendars, t).basePrice

\* C6: when the loop has run over all nights, the minimum stay used by the
\* stay-policy check is the maximum of the property default (1 when absent)
\* and every per-night minimumStay of the range.
C6_EffectiveMinimumStay ==
  LoopCompleted => minimumStay = ExpectedMinimumStay

C6_Witness ==
  /\ LoopCompleted /\ nights = 3
  /\ property.defaultMinimumStay = <<2>>
  /\ dayPriceOf(calendars, checkInDate).minimumStay = <<1>>
  /\ dayPriceOf(calendars, checkInDate + 1).minimumStay = <<3>>
  /\ dayPriceOf(calendars, checkInDate + 2).minimumStay = <<1>>
  /\ minimumStay = 3

\* C7 as stated, read for requests whose month calendars were all fetched:
\* a finished request with a night in the range whose minimumStay exceeds
\* the number of nights got the minimum_stay outcome.
C7_Original ==
  (Done /\ (\A m \in months : calendars[m].status = "present")
        /\ \E t \in RangeNights :
             /\ hasDayPrice(calendars, t)
             /\ dayPriceOf(calendars, t).minimumStay # <<>>
             /\ dayPriceOf(calendars, t).minimumStay[1] > nights)
    => response.reason = "minimum_stay"

\* C7 amended: a finished request with a night in the range whose minimumStay
\* exceeds the number of nights never got a positive outcome, and got the
\* minimum_stay outcome whenever every night of the range has a day entry in
\* its month's fetched calendar.
C7_SingleNightBinds ==
  (Done /\ \E t \in RangeNights :
             /\ hasDayPrice(calendars, t)
             /\ dayPriceOf(calendars, t).minimumStay # <<>>
             /\ dayPriceOf(calendars, t).minimumStay[1] > nights)
    => /\ response.available # <<TRUE>>
       /\ (\A t \in RangeNights : hasDayPrice(calendars, t))
            => /\ response.status = 200
               /\ response.available = <<FALSE>>
               /\ response.reason = "minimum_stay"

C7_Witness ==
  /\ Done /\ nights = 2
  /\ \A t \in RangeNights : hasDayPrice(calendars, t)
  /\ dayPriceOf(calendars, checkInDate).minimumStay = <<>>
  /\ dayPriceOf(calendars, checkInDate + 1).minimumStay = <<3>>
  /\ property.defaultMinimumStay = <<>>
  /\ response.reason = "minimum_stay"

\* C8 as stated: resolution starts only after all fetches have returned, and
\* a finished request with an absent month calendar got the range-level
\* PriceDataUnavailable failure, no night resolved, aggregator not called.
C8_Original ==
  /\ (pc = "loop" \/ calls.resolve > 0) => pending = {}
  /\ (Done /\ someCalendarMissing(calendars))
       => /\ response = PriceDataUnavailable
          /\ calls.resolve = 0 /\ calls.aggregator = 0

\* C8 amended: resolution starts only after all fetches have returned; a
\* finished request with an absent month calendar resolved no night and did
\* not call the aggregator, and when no fetch was rejected it got the
\* range-level PriceDataUnavailable failure (404), whichever months resolved.
C8_AllOrNothingJoin ==
  /\ (pc = "loop" \/ calls.resolve > 0) => pending = {}
  /\ (Done /\ someCalendarMissing(calendars))
       => /\ calls.resolve = 0 /\ calls.aggregator = 0
          /\ DOMAIN dailyPrices = {}
          /\ (\A m \in months : calendars[m].status # "rejected")
               => /\ response.status = 404
                  /\ response.error
                       = "Price information not available for the selected dates"

C8_Witness ==
  /\ Done /\ Cardinality(months) = 2
  /\ \E m \in months : calendars[m].status = "null"
  /\ \E m \in months : calendars[m].status = "present"
  /\ response = PriceDataUnavailable

\* C9: the stay-policy outcome (minimum_stay or positive) is produced only
\* after every night was resolved; when nights is below the effective minimum
\* stay the outcome is minimum_stay with minimumStay and requiredNights equal
\* to it and the availability source, and the aggregator was not called.
C9_StayPolicy ==
  /\ (Done /\ (response.reason = "minimum_stay" \/ response.available = <<TRUE>>))
       => (LoopCompleted /\ calls.resolve = nights
             /\ ResolvedNights = RangeNights)
  /\ (Done /\ LoopCompleted /\ nights < minimumStay)
       => /\ response.status = 200
          /\ response.available = <<FALSE>>
          /\ response.reason = "minimum_stay"
          /\ response.minimumStay = <<minimumStay>>
          /\ response.requiredNights = <<minimumStay>>
          /\ response.source = availabilityResult[1].source
          /\ calls.aggregator = 0 /\ aggregatorArg = <<>>

C9_Witness ==
  /\ Done /\ LoopCompleted /\ nights = 2 /\ minimumStay = 3
  /\ response.reason = "minimum_stay"
  /\ response.requiredNights = <<3>>
  /\ response.source = "legacy"

\* C10: a positive outcome implies a positive availability check, every
\* spanned month's calendar and every night's day entry present, nights >=
\* the effective minimum stay, and dailyRates keyed by exactly the dates
\* checkIn .. checkOut-1 (checkOut - checkIn entries), the map the
\* aggregator received.
C10_PositiveOutcome ==
  (Done /\ response.available = <<TRUE>>)
    => /\ availabilityResult # <<>> /\ availabilityResult[1].isAvailable
       /\ \A m \in getMonthsBetweenDates(checkInDate, checkOutDate) :
            m \in DOMAIN calendars /\ calendars[m].status = "present"
       /\ \A t \in checkInDate..(checkOutDate - 1) : hasDayPrice(calendars, t)
       /\ nights >= ExpectedMinimumStay
       /\ DOMAIN response.dailyRates
            = {format(t) : t \in checkInDate..(checkOutDate - 1)}
       /\ Cardinality(DOMAIN response.dailyRates) = checkOutDate - checkInDate
       /\ format(checkOutDate) \notin DOMAIN response.dailyRates
       /\ aggregatorArg = <<response.dailyRates>>
       /\ calls.aggregator = 1

C10_Witness ==
  /\ Done /\ response.available = <<TRUE>>
  /\ Cardinality(DOMAIN response.dailyRates) = 3
  /\ Cardinality(months) = 2

====
